---------------------------- MODULE Spec2Model ----------------------------
(***************************************************************************)
(* Model of ping_graph.py: a control loop (scheduler + snapshot + render)  *)
(* and one daemon thread per dispatched probe, sharing `results` and       *)
(* `inflight` under `data_lock`, with `stop_event` ending the session.     *)
(*                                                                         *)
(* Representation.                                                         *)
(*   - Millisecond quantities (timeout, dead_timeout, latencies) are       *)
(*     integers counting tenths of a millisecond, so 12.3 ms is 123 and    *)
(*     a fractional -D value such as 500.5 is 5005.                        *)
(*   - The monotonic clock, next_send and interval count ticks of 50 ms,   *)
(*     so the default interval of 0.1 s is 2 ticks (float rounding of the  *)
(*     repeated `next_send += interval` is not modelled).                  *)
(*   - Thread t is the t-th thread the scheduler started; th[t].id is the  *)
(*     probe_id argument it was given.                                     *)
(***************************************************************************)
EXTENDS Integers, Sequences, FiniteSets, TLC

\* ------------------------------------------------------------------ bounds
MaxThreads == 3       \* probes dispatched in a run of Spec (threads interleaved)
MaxSchedProbes == 5   \* probes dispatched in a run of SpecSched (control loop alone)
MaxTime == 8          \* largest value the monotonic clock returns (ticks)
MaxSeries == 3        \* completed probes in a run of SpecFn

\* --------------------------------------------------------------- constants
Ms(n) == n * 10                    \* milliseconds -> tenths of a millisecond
DefaultTimeoutMs == 150            \* -W default
DefaultDeadTimeoutMs == 500        \* -D default
MaxDeadTimeoutMs == 10000          \* -D upper limit
SyntheticTimeoutRc == 124          \* rc set after TimeoutExpired

None == -1                         \* Python None where a number is expected
Free == 0                          \* data_lock not held
Main == -1                         \* data_lock held by the control loop
NoSnap == <<>>                     \* no snapshot to compare the next one with

VARIABLES
  \* configuration (args)
  timeout,          \* args.timeout, tenths of ms
  dead_timeout,     \* args.dead_timeout as parsed (float), tenths of ms
  interval,         \* args.interval, ticks
  \* control loop (main thread)
  pc,               \* position of the main thread
  probe_id,         \* sequence counter
  next_send,        \* next fire time, ticks
  now,              \* last sample of the monotonic clock, ticks
  stop_event,       \* threading.Event
  \* shared state
  data_lock,        \* Free, Main, or the index of the holding probe thread
  results,          \* dict probe_id -> rtt (function on the recorded ids)
  inflight,         \* set of probe ids
  \* probe threads
  th,               \* sequence of [id, pc, measured], in start order
  \* locals of the snapshot block
  done_ids, times_snapshot, pings_snapshot, inflight_count, n_scheduled,
  \* history variables (not in the program)
  t0,               \* the initial next_send
  stall,            \* ticks between the previous and the current clock sample
  pass_fired,       \* probes dispatched in the current catch-up pass
  last_snap,        \* the latest snapshot, while no probe has committed since
  \* sequential harness for the pure functions (classifier, statistics)
  h_raw, h_series, h_stats

cfgVars   == <<timeout, dead_timeout, interval>>
mainVars  == <<pc, probe_id, next_send, now, stop_event>>
sharedVars == <<data_lock, results, inflight>>
snapVars  == <<done_ids, times_snapshot, pings_snapshot, inflight_count, n_scheduled>>
histVars  == <<t0, stall, pass_fired, last_snap>>
harnessVars == <<h_raw, h_series, h_stats>>
vars == <<cfgVars, mainVars, sharedVars, th, snapVars, histVars, harnessVars>>

\* ------------------------------------------------------------ input domains
Timeouts     == {Ms(DefaultTimeoutMs)}
DeadTimeouts == {Ms(100), Ms(DefaultDeadTimeoutMs), Ms(MaxDeadTimeoutMs) + 1}
Intervals    == {2}
T0s          == {0}
\* --interval is type=float and is not validated: any float is accepted.
SchedIntervals == {-1, 0, 1, 2, 3}
SchedT0s     == {0, 1}
\* -D around both ends of the accepted range [timeout, 10000].
SchedDeadTimeouts ==
  { Ms(100), Ms(DefaultTimeoutMs), Ms(DefaultDeadTimeoutMs),
    Ms(MaxDeadTimeoutMs), Ms(MaxDeadTimeoutMs) + 1 }

\* Text written by ping, reduced to what TIME_RE can find in it: the
\* comparator of the first match ("none": no match) and the matched value.
Text(cmp, val) == [cmp |-> cmp, val |-> val]
NoText == Text("none", 0)

\* One invocation of the ping mechanism as run_single_probe sees it:
\*   crash: Popen/communicate raised an exception other than TimeoutExpired
\*   term : communicate raised TimeoutExpired (the process is then killed)
\*   rc   : the exit status of the process
\*   out  : its standard output
Raw(crash, term, rc, out) == [crash |-> crash, term |-> term, rc |-> rc, out |-> out]

\* --------------------------------------------------------------- pure code
\* int(x) on a non-negative float: truncation to whole milliseconds.
IntOf(x) == (x \div 10) * 10

\* parse_ping_time: the value of the first TIME_RE match, "<" treated as "=".
parse_ping_time(text) == IF text.cmp = "none" THEN None ELSE text.val

\* The body of run_single_probe between Popen and the commit: the branch
\* taken (kind) and the value of `measured`.  dead is the int(dead_timeout)
\* the thread was given.
Outcome(kind, measured) == [kind |-> kind, measured |-> measured]

RcAfterCommunicate(raw) == IF raw.term THEN SyntheticTimeoutRc ELSE raw.rc

IsSlow(delay, timeout_ms) == delay > timeout_ms

\* Lines 90-112: the branches taken once communicate has returned.
ClassifyReturned(raw, timeout_ms, dead) ==
  LET rc == RcAfterCommunicate(raw) IN
  IF rc = 0
  THEN LET delay == parse_ping_time(raw.out) IN
       IF delay = None THEN Outcome("Unparseable", dead)
       ELSE IF IsSlow(delay, timeout_ms) THEN Outcome("Slow", delay)
       ELSE Outcome("Success", delay)
  ELSE IF rc = SyntheticTimeoutRc THEN Outcome("Expired", dead)
  ELSE Outcome("Failed", dead)

\* A probe whose error handler assigns no value.
Classify_NoHandler(raw, timeout_ms, dead) ==
  IF raw.crash THEN Outcome("Crashed", None)
  ELSE ClassifyReturned(raw, timeout_ms, dead)

\* Lines 75-116, with the `except Exception` handler of lines 114-116.
Classify(raw, timeout_ms, dead) ==
  IF raw.crash THEN Outcome("Crashed", dead)
  ELSE ClassifyReturned(raw, timeout_ms, dead)

\* results[k] = v on a dict
DictSet(d, k, v) == [x \in (DOMAIN d) \cup {k} |-> IF x = k THEN v ELSE d[x]]

\* The keys taken as the dict lists them.
Sorted_NoSort(s) == s

\* sorted(): insertion sort of a sequence of integers
RECURSIVE InsertSorted(_, _)
InsertSorted(s, x) ==
  IF s = <<>> THEN <<x>>
  ELSE IF x < Head(s) THEN <<x>> \o s
  ELSE <<Head(s)>> \o InsertSorted(Tail(s), x)

RECURSIVE Sorted(_)
Sorted(s) == IF s = <<>> THEN <<>> ELSE InsertSorted(Sorted(Tail(s)), Head(s))

\* The orders in which a dict may list its keys (insertion order, which is
\* the order of the commits: any order is allowed for here).
KeyOrders(d) ==
  {s \in [1..Cardinality(DOMAIN d) -> DOMAIN d] :
      \A i, j \in 1..Cardinality(DOMAIN d) : i # j => s[i] # s[j]}

Empty == [x \in {} |-> 0]


\* update_stats, the counts it derives from the snapshot's values.
\* dead is args.dead_timeout as parsed.

\* A statistics pass that also leaves the slow replies out of the valid
\* latencies.
IsValidTime_ExcludeSlow(t, timeout_ms, dead) == t # dead /\ t < timeout_ms

IsValidTime(t, timeout_ms, dead) == t # dead
IsGtTimeout(t, timeout_ms, dead) == t >= timeout_ms /\ t # dead
IsLost(t, timeout_ms, dead) == t = dead
IsBad(t, timeout_ms, dead) == IsGtTimeout(t, timeout_ms, dead) \/ IsLost(t, timeout_ms, dead)

\* Line 132: [t for t in completed_times if t != dead_timeout]
RECURSIVE ValidTimes(_, _, _)
ValidTimes(s, timeout_ms, dead) ==
  IF s = <<>> THEN <<>>
  ELSE (IF IsValidTime(Head(s), timeout_ms, dead) THEN <<Head(s)>> ELSE <<>>)
         \o ValidTimes(Tail(s), timeout_ms, dead)

\* Line 142: sum(1 for t in completed_times if (t >= timeout and t != dead_timeout))
RECURSIVE CountGtTimeout(_, _, _)
CountGtTimeout(s, timeout_ms, dead) ==
  IF s = <<>> THEN 0
  ELSE (IF IsGtTimeout(Head(s), timeout_ms, dead) THEN 1 ELSE 0)
         + CountGtTimeout(Tail(s), timeout_ms, dead)

\* Line 145: sum(1 for t in completed_times if t == dead_timeout)
RECURSIVE CountLost(_, _, _)
CountLost(s, timeout_ms, dead) ==
  IF s = <<>> THEN 0
  ELSE (IF IsLost(Head(s), timeout_ms, dead) THEN 1 ELSE 0)
         + CountLost(Tail(s), timeout_ms, dead)

\* Lines 148-156: the longest run of consecutive bad entries.
RECURSIVE MaxSeq(_, _, _, _, _)
MaxSeq(s, cur_seq, max_seq, timeout_ms, dead) ==
  IF s = <<>> THEN max_seq
  ELSE IF IsBad(Head(s), timeout_ms, dead)
       THEN MaxSeq(Tail(s), cur_seq + 1,
                   IF cur_seq + 1 > max_seq THEN cur_seq + 1 ELSE max_seq, timeout_ms, dead)
       ELSE MaxSeq(Tail(s), 0, max_seq, timeout_ms, dead)

\* The float aggregates are kept exact, as fractions num/den (not reduced);
\* Zero is the 0.0 the code assigns.
Rat(num, den) == [num |-> num, den |-> den]
Zero == Rat(0, 1)

RECURSIVE SumSeq(_)
SumSeq(s) == IF s = <<>> THEN 0 ELSE Head(s) + SumSeq(Tail(s))

RECURSIVE SumSquares(_)
SumSquares(s) == IF s = <<>> THEN 0 ELSE Head(s) * Head(s) + SumSquares(Tail(s))

Abs(x) == IF x < 0 THEN -x ELSE x

\* np.min / np.max
RECURSIVE MinSeq(_)
MinSeq(s) ==
  IF Len(s) = 1 THEN Head(s)
  ELSE LET m == MinSeq(Tail(s)) IN IF Head(s) < m THEN Head(s) ELSE m

RECURSIVE MaxOfSeq(_)
MaxOfSeq(s) ==
  IF Len(s) = 1 THEN Head(s)
  ELSE LET m == MaxOfSeq(Tail(s)) IN IF Head(s) > m THEN Head(s) ELSE m

\* np.mean
Mean(s) == Rat(SumSeq(s), Len(s))

\* np.std, by its square (the population variance).
Variance(s) == Rat(Len(s) * SumSquares(s) - SumSeq(s) * SumSeq(s), Len(s) * Len(s))

\* Line 137: the absolute differences of consecutive valid times.
Deltas(s) == [i \in 1..(Len(s) - 1) |-> Abs(s[i + 1] - s[i])]

\* Lines 131-159.
update_stats(completed_times, timeout_ms, dead, scheduled, n_inflight) ==
  LET valid == ValidTimes(completed_times, timeout_ms, dead)
      some  == completed_times # <<>>
      gt    == CountGtTimeout(completed_times, timeout_ms, dead)
      nlost == CountLost(completed_times, timeout_ms, dead)
  IN
  [ n_done      |-> Len(completed_times),
    valid_times |-> IF some THEN valid ELSE <<>>,
    avg_time    |-> IF some /\ valid # <<>> THEN Mean(valid) ELSE Zero,
    min_time    |-> IF some /\ valid # <<>> THEN MinSeq(valid) ELSE 0,
    max_time    |-> IF some /\ valid # <<>> THEN MaxOfSeq(valid) ELSE 0,
    variance    |-> IF some /\ valid # <<>> THEN Variance(valid) ELSE Zero,
    jitter      |-> IF some /\ Len(valid) > 1 THEN Mean(Deltas(valid)) ELSE Zero,
    gt_timeout  |-> IF some THEN gt ELSE 0,
    pct_gt_timeout |-> IF some THEN Rat(gt * 100, Len(completed_times)) ELSE Zero,
    lost        |-> IF some THEN nlost ELSE 0,
    pct_lost    |-> IF some THEN Rat(nlost * 100, Len(completed_times)) ELSE Zero,
    max_seq     |-> IF some THEN MaxSeq(completed_times, 0, 0, timeout_ms, dead) ELSE 0,
    n_scheduled |-> scheduled,
    n_inflight  |-> n_inflight ]

\* Raw results the probe threads of the concurrent specification draw from:
\* a parseable fast reply, a reply without a latency, a hung ping, a failing
\* ping and a spawn error.
ProbeRaws ==
  { Raw(FALSE, FALSE, 0, Text("=", 123)),
    Raw(FALSE, FALSE, 0, NoText),
    Raw(FALSE, TRUE,  0, NoText),
    Raw(FALSE, FALSE, 1, NoText),
    Raw(TRUE,  FALSE, 0, NoText) }

\* Popen or communicate raising an error.
CrashRaws == {Raw(TRUE, FALSE, 0, NoText)}

\* Each invocation either raises an error or gets a fast reply.
ErrRaws == CrashRaws \cup {Raw(FALSE, FALSE, 0, Text("=", 123))}

\* -------------------------------------------------------------------- Init
\* Everything but the arguments and the clock; `now` starts as the clock's
\* reading when the program starts.
InitRest ==
  /\ pc = "startup"
  /\ probe_id = 0
  /\ next_send = 0
  /\ stop_event = FALSE
  /\ data_lock = Free
  /\ results = Empty
  /\ inflight = {}
  /\ th = <<>>
  /\ done_ids = <<>>
  /\ times_snapshot = <<>>
  /\ pings_snapshot = <<>>
  /\ inflight_count = 0
  /\ n_scheduled = 0
  /\ t0 = 0
  /\ stall = 0
  /\ pass_fired = 0
  /\ last_snap = NoSnap
  /\ h_raw = <<>>
  /\ h_series = <<>>
  /\ h_stats = <<>>

Init ==
  /\ timeout \in Timeouts
  /\ dead_timeout \in DeadTimeouts
  /\ interval \in Intervals
  /\ now \in T0s
  /\ InitRest

\* ------------------------------------------------------------ control loop
\* Argument validation and host resolution, then the scheduler's initial
\* state (probe_id = 0, next_send = monotonic()).
\* A validation that also rejects both ends of the range.
ConfigValid_Strict == ~(dead_timeout >= Ms(MaxDeadTimeoutMs) \/ dead_timeout <= timeout)

\* Line 221: `if args.dead_timeout > 10000 or args.dead_timeout < args.timeout`
ConfigValid == ~(dead_timeout > Ms(MaxDeadTimeoutMs) \/ dead_timeout < timeout)

Startup ==
  /\ pc = "startup"
  /\ \E resolved \in BOOLEAN :
       IF ConfigValid /\ resolved
       THEN /\ pc' = "loop"
            /\ probe_id' = 0
            /\ next_send' = now
            /\ t0' = now
       ELSE /\ pc' = "fatal"
            /\ UNCHANGED <<probe_id, next_send, t0>>
  /\ UNCHANGED <<cfgVars, now, stop_event, sharedVars, th, snapVars, stall, pass_fired, last_snap, harnessVars>>

\* A stop signal that the loops never see.
is_set_Never == FALSE

\* stop_event.is_set()
is_set == stop_event

\* A control loop that does not look at the stop signal.
LoopGuard_Always == TRUE

\* `while not stop_event.is_set():`
LoopGuard == ~is_set

\* Lines 246-247: the outer loop test and the clock sample of the pass.
LoopTest ==
  /\ pc = "loop"
  /\ IF LoopGuard
     THEN \E t \in now..MaxTime :
            /\ now' = t
            /\ stall' = t - now
            /\ pass_fired' = 0
            /\ pc' = "catchup"
     ELSE /\ pc' = "exiting"
          /\ UNCHANGED <<now, stall, pass_fired>>
  /\ UNCHANGED <<cfgVars, probe_id, next_send, stop_event, sharedVars, th, snapVars, t0, last_snap, harnessVars>>

\* A scheduler that waits for the earlier probes before it fires the next.
CatchUpGuard_Join ==
  now >= next_send /\ ~is_set /\ \A t \in 1..Len(th) : th[t].pc = "done"

\* `while now >= next_send and not stop_event.is_set():`
CatchUpGuard == now >= next_send /\ ~is_set

\* The sequence number given to the next probe (`probe_id += 1`).
NextProbeId == probe_id + 1

\* A thread handed the counter's value from before the increment.
ThreadArg_Stale == probe_id - 1

\* The id argument handed to the thread started at line 252-256.
ThreadArg == probe_id

\* A schedule restarted from the clock sample: it drifts with every stall.
NextFireTime_Drift == now + interval

\* `next_send += interval`
NextFireTime == next_send + interval

\* Lines 250-251: the catch-up loop's test holds and the counter is
\* incremented.
Increment(maxp) ==
  /\ pc = "catchup"
  /\ CatchUpGuard
  /\ Len(th) < maxp
  /\ probe_id' = NextProbeId
  /\ pc' = "start"
  /\ UNCHANGED <<cfgVars, next_send, now, stop_event, sharedVars, th, snapVars, histVars, harnessVars>>

\* Lines 252-257: the daemon thread is started, without waiting for it, and
\* next_send advances.
StartThread ==
  /\ pc = "start"
  /\ th' = Append(th, [id |-> ThreadArg, pc |-> "begin", measured |-> None])
  /\ next_send' = NextFireTime
  /\ pass_fired' = pass_fired + 1
  /\ pc' = "catchup"
  /\ UNCHANGED <<cfgVars, probe_id, now, stop_event, sharedVars, snapVars, t0, stall, last_snap, harnessVars>>

\* Line 250 evaluating to false: the pass is over.
EndPass ==
  /\ pc = "catchup"
  /\ ~CatchUpGuard
  /\ pc' = "lock"
  /\ UNCHANGED <<cfgVars, probe_id, next_send, now, stop_event, sharedVars, th, snapVars, histVars, harnessVars>>

\* A lock that excludes nobody.
CanAcquire_NoLock == TRUE

\* Whether a thread may take data_lock.
CanAcquire == data_lock = Free

\* Line 260: `with data_lock:` entered by the control loop.
SnapAcquire ==
  /\ pc = "lock"
  /\ CanAcquire
  /\ data_lock' = Main
  /\ pc' = "snap_ids"
  /\ stall' = 0
  /\ pass_fired' = 0
  /\ UNCHANGED <<cfgVars, probe_id, next_send, now, stop_event, results, inflight, th, snapVars, t0, last_snap, harnessVars>>

\* Line 261: done_ids = sorted(results.keys())
SnapIds ==
  /\ pc = "snap_ids"
  /\ \E ks \in KeyOrders(results) : done_ids' = Sorted(ks)
  /\ pc' = "snap_rest"
  /\ UNCHANGED <<cfgVars, probe_id, next_send, now, stop_event, sharedVars, th,
                 times_snapshot, pings_snapshot, inflight_count, n_scheduled, histVars, harnessVars>>

\* Lines 262-265.  A key of done_ids that is not in results would raise
\* KeyError; under the lock this cannot happen (the guard keeps the model
\* defined when the lock is mutated away).
SnapRest ==
  /\ pc = "snap_rest"
  /\ \A i \in 1..Len(done_ids) : done_ids[i] \in DOMAIN results
  /\ times_snapshot' = [i \in 1..Len(done_ids) |-> results[done_ids[i]]]
  /\ pings_snapshot' = done_ids
  /\ inflight_count' = Cardinality(inflight)
  /\ n_scheduled' = probe_id
  /\ last_snap' = <<done_ids, [i \in 1..Len(done_ids) |-> results[done_ids[i]]]>>
  /\ pc' = "snap_release"
  /\ UNCHANGED <<cfgVars, probe_id, next_send, now, stop_event, sharedVars, th, done_ids,
                 t0, stall, pass_fired, harnessVars>>

\* End of the `with data_lock:` block.
SnapRelease ==
  /\ pc = "snap_release"
  /\ data_lock' = IF data_lock = Main THEN Free ELSE data_lock
  /\ pc' = "render"
  /\ UNCHANGED <<cfgVars, probe_id, next_send, now, stop_event, results, inflight, th, snapVars, histVars, harnessVars>>

\* Lines 267-291: drawing and update_stats read the snapshot and change only
\* the figure.  The snapshot locals are dead afterwards and are cleared.
Render ==
  /\ pc = "render"
  /\ pc' = "wait"
  /\ done_ids' = <<>>
  /\ times_snapshot' = <<>>
  /\ pings_snapshot' = <<>>
  /\ inflight_count' = 0
  /\ n_scheduled' = 0
  /\ UNCHANGED <<cfgVars, probe_id, next_send, now, stop_event, sharedVars, th, histVars, harnessVars>>

\* on_close, run by the GUI event loop inside start_event_loop (line 294).
on_close ==
  /\ pc = "wait"
  /\ ~stop_event
  /\ stop_event' = TRUE
  /\ UNCHANGED <<cfgVars, pc, probe_id, next_send, now, sharedVars, th, snapVars, histVars, harnessVars>>

\* Line 294 returning.
WaitReturn ==
  /\ pc = "wait"
  /\ pc' = "loop"
  /\ UNCHANGED <<cfgVars, probe_id, next_send, now, stop_event, sharedVars, th, snapVars, histVars, harnessVars>>

InTry == pc \in {"loop", "catchup", "start", "lock", "snap_ids", "snap_rest", "snap_release", "render", "wait"}

\* Lines 295-298: KeyboardInterrupt raised anywhere in the try block (a
\* `with` block it leaves releases the lock).
KeyboardInterrupt ==
  /\ InTry
  /\ stop_event' = TRUE
  /\ data_lock' = IF data_lock = Main THEN Free ELSE data_lock
  /\ pc' = "exiting"
  /\ done_ids' = <<>>
  /\ times_snapshot' = <<>>
  /\ pings_snapshot' = <<>>
  /\ inflight_count' = 0
  /\ n_scheduled' = 0
  /\ stall' = 0
  /\ pass_fired' = 0
  /\ last_snap' = NoSnap
  /\ UNCHANGED <<cfgVars, probe_id, next_send, now, results, inflight, th, t0, harnessVars>>

\* Lines 299-301: the script ends without joining the probe threads; they
\* are daemon threads, so the interpreter exits and they stop where they are.
ProcessExit ==
  /\ pc = "exiting"
  /\ pc' = "terminated"
  /\ UNCHANGED <<cfgVars, probe_id, next_send, now, stop_event, sharedVars, th, snapVars, histVars, harnessVars>>

\* ---------------------------------------------------------- probe threads
Alive == pc # "terminated"

Threads == 1..Len(th)

\* Line 72: `with data_lock:` entered.
ProbeAcquireAdd(t) ==
  /\ Alive
  /\ th[t].pc = "begin"
  /\ CanAcquire
  /\ data_lock' = t
  /\ th' = [th EXCEPT ![t].pc = "add"]
  /\ UNCHANGED <<cfgVars, mainVars, results, inflight, snapVars, histVars, harnessVars>>

\* Line 73 and the end of the block.
ProbeAdd(t) ==
  /\ Alive
  /\ th[t].pc = "add"
  /\ inflight' = inflight \cup {th[t].id}
  /\ data_lock' = IF data_lock = t THEN Free ELSE data_lock
  /\ th' = [th EXCEPT ![t].pc = "probe"]
  /\ UNCHANGED <<cfgVars, mainVars, results, snapVars, histVars, harnessVars>>

\* Lines 75-116: spawn ping, wait for it up to the deadline, classify.
ProbeRun(t, raws) ==
  /\ Alive
  /\ th[t].pc = "probe"
  /\ \E raw \in raws :
       th' = [th EXCEPT ![t].pc = "commit",
                        ![t].measured = Classify(raw, timeout, IntOf(dead_timeout)).measured]
  /\ UNCHANGED <<cfgVars, mainVars, sharedVars, snapVars, histVars, harnessVars>>

\* Line 119: `with data_lock:` entered.
ProbeAcquireCommit(t) ==
  /\ Alive
  /\ th[t].pc = "commit"
  /\ CanAcquire
  /\ data_lock' = t
  /\ th' = [th EXCEPT ![t].pc = "store"]
  /\ UNCHANGED <<cfgVars, mainVars, results, inflight, snapVars, histVars, harnessVars>>

\* A commit that rebuilds the dict around the newest value.
Commit_Clobber(d, k, v) == [x \in (DOMAIN d) \cup {k} |-> v]

\* Line 120: results[probe_id] = measured
Commit(d, k, v) == DictSet(d, k, v)

ProbeStore(t) ==
  /\ Alive
  /\ th[t].pc = "store"
  /\ results' = Commit(results, th[t].id, th[t].measured)
  /\ th' = [th EXCEPT ![t].pc = "discard"]
  /\ last_snap' = NoSnap
  /\ UNCHANGED <<cfgVars, mainVars, data_lock, inflight, snapVars, t0, stall, pass_fired, harnessVars>>

\* Line 121 and the end of the block; the thread ends.
ProbeDiscard(t) ==
  /\ Alive
  /\ th[t].pc = "discard"
  /\ inflight' = inflight \ {th[t].id}
  /\ data_lock' = IF data_lock = t THEN Free ELSE data_lock
  /\ th' = [th EXCEPT ![t].pc = "done", ![t].measured = None]
  /\ UNCHANGED <<cfgVars, mainVars, results, snapVars, histVars, harnessVars>>

\* The statements of the main thread itself.
LoopStep(maxp) ==
  \/ Startup
  \/ LoopTest
  \/ Increment(maxp)
  \/ StartThread
  \/ EndPass
  \/ SnapAcquire
  \/ SnapIds
  \/ SnapRest
  \/ SnapRelease
  \/ Render
  \/ WaitReturn
  \/ ProcessExit

\* The main thread, with the callback and the signal it can receive.
ControlStep(maxp) ==
  \/ LoopStep(maxp)
  \/ on_close
  \/ KeyboardInterrupt

ProbeStep(t, raws) ==
  \/ ProbeAcquireAdd(t)
  \/ ProbeAdd(t)
  \/ ProbeRun(t, raws)
  \/ ProbeAcquireCommit(t)
  \/ ProbeStore(t)
  \/ ProbeDiscard(t)

Next ==
  \/ ControlStep(MaxThreads)
  \/ \E t \in Threads : ProbeStep(t, ProbeRaws)

Spec == Init /\ [][Next]_vars

\* The same program when every ping invocation either raises an error or
\* replies fast.
NextErr ==
  \/ ControlStep(MaxThreads)
  \/ \E t \in Threads : ProbeStep(t, ErrRaws)

SpecErr == Init /\ [][NextErr]_vars

\* The control loop alone (probe threads started but not scheduled), over
\* more intervals, start times and probes: the scheduler's arithmetic.
InitSched ==
  /\ timeout \in Timeouts
  /\ dead_timeout \in SchedDeadTimeouts
  /\ interval \in SchedIntervals
  /\ now \in SchedT0s
  /\ InitRest

NextSched == ControlStep(MaxSchedProbes)

SpecSched == InitSched /\ [][NextSched]_vars

\* ---------------------------------------------------------------- harness
\* The classifier and the statistics as pure functions: probes complete
\* one after the other in sequence-number order, each on any raw result,
\* and the statistics are computed over the series after each.
ExitCodes == {0, 1, 2, SyntheticTimeoutRc}
Texts == { NoText, Text("=", 123), Text("<", 10), Text("=", Ms(150)),
           Text("=", Ms(200)), Text("=", Ms(500)) }
AllRaws == {Raw(c, t, rc, out) : c \in BOOLEAN, t \in BOOLEAN, rc \in ExitCodes, out \in Texts}

\* -D as parsed by type=float: the default and a value with a fraction.
FnDeadTimeouts == {Ms(DefaultDeadTimeoutMs), Ms(DefaultDeadTimeoutMs) + 5}

InitFn ==
  /\ timeout \in Timeouts
  /\ dead_timeout \in FnDeadTimeouts
  /\ interval \in Intervals
  /\ now \in T0s
  /\ InitRest

Times(series) == [i \in 1..Len(series) |-> series[i].measured]

ProbeAndStats ==
  /\ Len(h_series) < MaxSeries
  /\ \E raw \in AllRaws :
       LET series == Append(h_series, Classify(raw, timeout, IntOf(dead_timeout))) IN
       /\ h_raw' = <<raw>>
       /\ h_series' = series
       /\ h_stats' = <<update_stats(Times(series), timeout, dead_timeout, Len(series), 0)>>
  /\ UNCHANGED <<cfgVars, mainVars, sharedVars, th, snapVars, histVars>>

NextFn == ProbeAndStats

SpecFn == InitFn /\ [][NextFn]_vars

\* The operating system schedules the main thread again and again while it
\* can take a step.
LiveSpec ==
  /\ Spec
  /\ WF_vars(ControlStep(MaxThreads))


\* ================================================================== claims
Recorded == DOMAIN results
Stopped == pc \in {"exiting", "terminated"}

\* ---------------------------------------------------------------------- C1
\* C1: every step keeps each entry of results with its value (no entry is
\* changed or removed), and a store to results is always to a sequence
\* number that has no entry yet.
C1_WriteOnce ==
  [][ /\ \A k \in Recorded : k \in DOMAIN results' /\ results'[k] = results[k]
      /\ \A t \in Threads : ProbeStore(t) => th[t].id \notin Recorded ]_vars

\* A thread is storing its value while another entry, with another value,
\* is already in the store.
C1_Witness ==
  \E t, u \in Threads :
    /\ th[t].pc = "done" /\ th[t].id \in Recorded
    /\ th[u].pc = "discard" /\ th[u].id \in Recorded
    /\ results[th[t].id] # results[th[u].id]

\* ---------------------------------------------------------------------- C2
\* C2: when a catch-up pass has ended, next_send is past the pass's clock
\* sample and equals t0 + probe_id * interval; and with interval 100 ms, a
\* pass that starts 350 ms or more after the previous clock sample has
\* dispatched at least three probes.
C2_CatchUp ==
  pc = "lock" =>
    /\ next_send > now
    /\ next_send = t0 + probe_id * interval
    /\ (interval * 50 = 100 /\ stall * 50 >= 350) => pass_fired >= 3

\* A pass after an earlier pass, 350 ms late at interval 100 ms, has ended.
C2_Witness ==
  /\ pc = "lock"
  /\ interval * 50 = 100
  /\ stall * 50 >= 350
  /\ pass_fired >= 3
  /\ probe_id > pass_fired

\* ---------------------------------------------------------------------- C3
\* C3: a due probe can always be dispatched, whatever the earlier probes
\* are doing; a pass ends only when no probe is due; the main thread can
\* always take its next statement unless it is at `with data_lock` and a
\* probe thread holds the lock; and a probe thread that holds the lock can
\* always take its next step.
C3_NeverWaits ==
  /\ (pc = "catchup" /\ now >= next_send /\ ~stop_event /\ Len(th) < MaxThreads)
        => ENABLED Increment(MaxThreads)
  /\ pc = "lock" => now < next_send
  /\ (InTry /\ ~(pc = "lock" /\ data_lock # Free)
            /\ ~(pc = "catchup" /\ CatchUpGuard /\ Len(th) >= MaxThreads))
        => ENABLED LoopStep(MaxThreads)
  /\ \A t \in Threads : (Alive /\ data_lock = t) => ENABLED ProbeStep(t, ProbeRaws)

\* The third probe is dispatched and the second has recorded its outcome
\* while the first is still in flight inside its ping.
C3_Witness ==
  /\ Len(th) = 3
  /\ th[1].pc = "probe" /\ th[1].id \in inflight
  /\ th[2].id \in Recorded
  /\ th[1].id \notin Recorded

\* ---------------------------------------------------------------------- C4
\* C4: in a step taken with the stop signal set, probe_id does not change
\* and no thread is started.
C4_NoDispatchAfterStop ==
  [][stop_event => (probe_id' = probe_id /\ Len(th') = Len(th))]_vars

\* The stop signal arrived in a catch-up pass with at least two probes
\* still due, after a probe had been dispatched.
C4_Witness ==
  /\ stop_event
  /\ Stopped
  /\ probe_id >= 1
  /\ Len(th) < MaxThreads
  /\ now >= next_send + interval

\* ---------------------------------------------------------------------- C5
\* C5: every dispatched probe records its outcome and leaves the in-flight
\* set; stated for the end of the process, after which no thread runs: by
\* then every started thread's sequence number is recorded and not in
\* flight.
C5_AllRecordedAtExit ==
  pc = "terminated" =>
    \A t \in Threads : th[t].id \in Recorded /\ th[t].id \notin inflight

\* ---------------------------------------------------------------------- C6
\* C6: once the stop signal is set the control loop eventually exits, the
\* stop signal is never cleared, so the session is never Running again,
\* and a stopped session stays stopped.
C6_Lifecycle ==
  /\ stop_event ~> Stopped
  /\ [][stop_event => stop_event']_vars
  /\ [][Stopped => Stopped']_vars

\* The process has ended while a probe was still in flight.
C6_Witness == pc = "terminated" /\ stop_event /\ inflight # {}

\* ---------------------------------------------------------------------- C7
\* C7: at the end of the snapshot block the snapshot's sequence numbers are
\* strictly increasing and are exactly the recorded ones, each with its
\* recorded value, the in-flight count is the size of the in-flight set,
\* and no sequence number is both recorded and in flight.
C7_Snapshot ==
  pc = "snap_release" =>
    /\ \A i, j \in 1..Len(pings_snapshot) : i < j => pings_snapshot[i] < pings_snapshot[j]
    /\ {pings_snapshot[i] : i \in 1..Len(pings_snapshot)} = Recorded
    /\ Len(times_snapshot) = Len(pings_snapshot)
    /\ \A i \in 1..Len(pings_snapshot) : times_snapshot[i] = results[pings_snapshot[i]]
    /\ inflight_count = Cardinality(inflight)
    /\ inflight \cap Recorded = {}

\* A snapshot of probes 2 and 3 taken while probe 1 is still in flight.
C7_Witness ==
  /\ pc = "snap_release"
  /\ pings_snapshot = <<2, 3>>
  /\ inflight_count = 1
  /\ 1 \in inflight

\* ---------------------------------------------------------------------- C8
\* C8: the t-th thread started has sequence number t, and probe_id is the
\* number of threads started (one more between the increment and the start
\* of the thread, or when the loop was interrupted there).
C8_SequenceNumbers ==
  /\ \A t \in Threads : th[t].id = t
  /\ pc \in {"start", "exiting", "terminated"} => probe_id \in {Len(th), Len(th) + 1}
  /\ pc \notin {"start", "exiting", "terminated"} => probe_id = Len(th)

\* Three probes have been dispatched.
C8_Witness == Len(th) = 3 /\ th[3].id = 3 /\ probe_id = 3


\* ---------------------------------------------------------------------- C9
\* C9: the outcome of the last probe follows the rule order: Expired (the
\* deadline value) when the invocation was forcibly terminated, whatever
\* its exit status and output; otherwise, on exit status 0, the parsed
\* latency as Success or Slow, or Unparseable (the deadline value) when no
\* latency is found; otherwise Failed (the deadline value).
LastRaw == h_raw[1]
LastOutcome == h_series[Len(h_series)]

C9_RuleOrder ==
  (h_raw # <<>> /\ ~LastRaw.crash) =>
    IF LastRaw.term
    THEN LastOutcome = Outcome("Expired", dead_timeout)
    ELSE IF LastRaw.rc = 0
    THEN IF parse_ping_time(LastRaw.out) = None
         THEN LastOutcome = Outcome("Unparseable", dead_timeout)
         ELSE /\ LastOutcome.kind \in {"Success", "Slow"}
              /\ LastOutcome.measured = parse_ping_time(LastRaw.out)
    ELSE LastOutcome = Outcome("Failed", dead_timeout)

\* --------------------------------------------------------------------- C10
\* C10: over a series in which no reply's latency equals the deadline
\* value, a reply is Slow exactly when its latency is above the threshold,
\* the slow count is the number of Slow replies, and the longest bad run
\* is the longest run of entries that are not Success (so a reply at the
\* threshold is Success, is not counted and resets the run).

RECURSIVE KindRun(_, _, _)
KindRun(s, cur, best) ==
  IF s = <<>> THEN best
  ELSE IF Head(s).kind # "Success"
       THEN KindRun(Tail(s), cur + 1, IF cur + 1 > best THEN cur + 1 ELSE best)
       ELSE KindRun(Tail(s), 0, best)

NoReplyAtDeadline ==
  \A i \in 1..Len(h_series) :
    h_series[i].kind \in {"Success", "Slow"} => h_series[i].measured # dead_timeout

C10_ThresholdBoundary ==
  (h_stats # <<>> /\ NoReplyAtDeadline) =>
    /\ \A i \in 1..Len(h_series) :
         h_series[i].kind \in {"Success", "Slow"} =>
           (h_series[i].kind = "Slow" <=> h_series[i].measured > timeout)
    /\ h_stats[1].gt_timeout =
         Cardinality({i \in 1..Len(h_series) : h_series[i].kind = "Slow"})
    /\ h_stats[1].max_seq = KindRun(h_series, 0, 0)


\* The outcomes that are not a measured reply.
NoReplyKinds == {"Unparseable", "Expired", "Failed", "Crashed"}
ReplyKinds == {"Success", "Slow"}
CountKinds(kinds) == Cardinality({i \in 1..Len(h_series) : h_series[i].kind \in kinds})

\* --------------------------------------------------------------------- C11
\* C11: with a deadline of whole milliseconds, the lost count is the
\* number of Expired, Failed (a crashed probe included) and Unparseable
\* outcomes, the lost percentage is their share, and every measured reply
\* (Success or Slow) is among the valid latencies.
C11_LostAreFailures ==
  (h_stats # <<>> /\ dead_timeout = IntOf(dead_timeout)) =>
    /\ h_stats[1].lost = CountKinds(NoReplyKinds)
    /\ h_stats[1].pct_lost.num * Len(h_series)
         = 100 * CountKinds(NoReplyKinds) * h_stats[1].pct_lost.den
    /\ Len(h_stats[1].valid_times) = CountKinds(ReplyKinds)

\* --------------------------------------------------------------------- C12
\* C12: the valid latencies are the series' values that differ from the
\* deadline value the statistics are given, in series order (so a Slow
\* reply below the deadline is one of them); mean, min and max are those of
\* the valid latencies, the variance and the jitter are computed over them;
\* and with no valid latency every aggregate is zero.
ValidOf(series) == SelectSeq(Times(series), LAMBDA t : t # dead_timeout)

C13_LongestBadRun ==
  h_stats # <<>> =>
    /\ h_stats[1].max_seq = KindRun(h_series, 0, 0)
    /\ h_stats[1].max_seq <= Len(h_series)
    /\ CountKinds({"Success"}) = Len(h_series) => h_stats[1].max_seq = 0

\* --------------------------------------------------------------------- C18
\* C18: every Expired, Failed (or crashed) or Unparseable entry holds the
\* deadline value the statistics compare against, so it is counted as lost
\* and is not among the valid latencies.
C18_SentinelConsistent ==
  h_stats # <<>> =>
    /\ \A i \in 1..Len(h_series) :
         h_series[i].kind \in NoReplyKinds => h_series[i].measured = dead_timeout
    /\ h_stats[1].lost >= CountKinds(NoReplyKinds)
    /\ Len(h_stats[1].valid_times) <= CountKinds(ReplyKinds)

\* --------------------------------------------------------------------- C14
\* C14: with a deadline above 10000 ms or below the threshold the program
\* goes from startup to the fatal exit only, and in the fatal exit (also
\* reached when the host does not resolve) nothing can happen any more; in
\* both cases probe_id is 0, no thread was started, and results and
\* inflight are empty.  With any deadline inside [timeout, 10000] startup
\* can enter the control loop.
C14_FatalConfig ==
  LET outside == dead_timeout > Ms(MaxDeadTimeoutMs) \/ dead_timeout < timeout IN
  /\ outside => pc \in {"startup", "fatal"}
  /\ (outside \/ pc = "fatal") =>
        probe_id = 0 /\ th = <<>> /\ Recorded = {} /\ inflight = {}
  /\ pc = "fatal" => ~ENABLED NextSched
  /\ (pc = "startup" /\ ~outside) => ENABLED (Startup /\ pc' = "loop")

\* The program has exited on a deadline just above the maximum.
C14_Witness ==
  /\ pc = "fatal"
  /\ dead_timeout > Ms(MaxDeadTimeoutMs)
  /\ probe_id = 0

\* --------------------------------------------------------------------- C19
\* C19: every dispatch of a catch-up pass moves next_send forward, so the
\* distance from next_send to the pass's clock sample shrinks with every
\* probe the pass dispatches and the pass ends after finitely many.
C19_PassTerminates ==
  [][StartThread => next_send' > next_send]_vars

C17_InflightAccounting ==
  pc = "snap_release" =>
    /\ n_scheduled = Len(pings_snapshot) + inflight_count
    /\ \A k \in 1..n_scheduled : k \in inflight \/ k \in Recorded

\* --------------------------------------------------------------------- C20
\* C20: the recorded sequence numbers and the in-flight ones are all in
\* 1..probe_id; a probe thread inside either of its `with data_lock` blocks
\* holds the lock, and the control loop is then outside its snapshot block;
\* a sequence number is both recorded and in flight only inside the commit
\* block of its thread (between the store and the discard), so never when a
\* thread could read them; every step that changes results or inflight is
\* taken by the probe thread that holds the lock; and the store is followed,
\* with the lock still held, by the discard.
InBlock(t) == th[t].pc \in {"add", "store", "discard"}

C20_SharedState ==
  /\ [](/\ Recorded \subseteq 1..probe_id
        /\ inflight \subseteq 1..probe_id
        /\ \A t \in Threads : InBlock(t) => data_lock = t
        /\ (\E t \in Threads : InBlock(t))
             => pc \notin {"snap_ids", "snap_rest", "snap_release"}
        /\ \A k \in Recorded \cap inflight :
             \E t \in Threads : th[t].id = k /\ th[t].pc = "discard" /\ data_lock = t
        /\ data_lock = Free => Recorded \cap inflight = {}
        /\ \A t \in Threads : (Alive /\ th[t].pc = "discard") => ENABLED ProbeDiscard(t))
  /\ [][(results' # results \/ inflight' # inflight) =>
          /\ data_lock \in Threads
          /\ InBlock(data_lock)
          /\ th'[data_lock] # th[data_lock]
          /\ \A u \in Threads \ {data_lock} : th'[u] = th[u]
          /\ pc' = pc]_vars
  /\ [][\A t \in Threads :
          ProbeStore(t) => th'[t].pc = "discard" /\ data_lock' = t]_vars

\* A probe is between its store and its discard, holding the lock, while
\* another probe waits to commit and the control loop waits to snapshot.
C20_Witness ==
  /\ pc = "lock"
  /\ \E t, u \in Threads :
       /\ th[t].pc = "discard"
       /\ th[t].id \in Recorded \cap inflight
       /\ data_lock = t
       /\ th[u].pc = "commit"
       /\ th[u].id \in inflight

=============================================================================
